---- MODULE Spec2Model ----
(***************************************************************************)
(* Model of the interactive generation loop of rChatbot (src/src/main.rs): *)
(* main's `loop`, TextGeneration::new and TextGeneration::run, together    *)
(* with the collaborators run drives (tokenizer, streaming decoder, model  *)
(* forward with its incremental cache, repeat penalty, sampler).           *)
(***************************************************************************)
EXTENDS Integers, Sequences, FiniteSets

\* ---------------------------------------------------------------- bounds
MaxSessions == 2      \* prompts read by the interactive loop
MaxPromptLen == 2     \* tokens an encoded prompt has at most
MaxSampleLen == 2     \* largest --sample-len tried
RngPeriod == 3        \* states of the pseudo-random generator

\* ------------------------------------------------------------ vocabulary
\* Token ids are the positions 1..Len(vocab) of a tokenizer vocabulary.
\* "H" and "T" are the two halves of the two-byte character "E"; "</s>" and
\* "<unk>" are special tokens.
VocabWithEos == <<"H", "</s>", "T">>
VocabWithoutEos == <<"H", "<unk>", "T">>
Vocabularies == {VocabWithEos, VocabWithoutEos}
SpecialTokens == {"</s>", "<unk>"}

None == <<>>
Some(x) == <<x>>

\* Tokenizer::token_to_id behind TokenOutputStream::get_token
get_token(vocab, s) ==
    IF \E i \in 1..Len(vocab) : vocab[i] = s
    THEN Some(CHOOSE i \in 1..Len(vocab) : vocab[i] = s)
    ELSE None

\* ------------------------------------------------------- text decoding
\* Tokenizer::decode(ids, skip_special_tokens = true): special tokens are
\* dropped, the remaining byte pieces are joined and read as characters; a
\* piece that does not complete a character reads as the replacement "?".
RECURSIVE Pieces(_, _)
Pieces(vocab, toks) ==
    IF toks = <<>> THEN <<>>
    ELSE IF vocab[Head(toks)] \in SpecialTokens THEN Pieces(vocab, Tail(toks))
    ELSE <<vocab[Head(toks)]>> \o Pieces(vocab, Tail(toks))

RECURSIVE Chars(_)
Chars(bs) ==
    IF bs = <<>> THEN <<>>
    ELSE IF Head(bs) = "H" /\ Len(bs) >= 2 /\ bs[2] = "T"
         THEN <<"E">> \o Chars(Tail(Tail(bs)))
    ELSE <<"?">> \o Chars(Tail(bs))

Decode(vocab, toks) == Chars(Pieces(vocab, toks))

\* the joined pieces stop after the first half of a two-byte character
EndsMidChar(vocab, toks) ==
    LET bs == Pieces(vocab, toks)
    IN  bs # <<>> /\ bs[Len(bs)] = "H"

\* ---------------------------------------------- streaming text decoder
\* DecoderState: the tokens consumed so far and the length already emitted.
ClearedDecoder == [toks |-> <<>>, emitted |-> 0]

Suffix(text, from) == SubSeq(text, from + 1, Len(text))

\* next_token: <<new state, Option<fragment>>>
StreamNextToken(vocab, st, t) ==
    LET toks == Append(st.toks, t)
        text == Decode(vocab, toks)
    IN  IF Len(text) > st.emitted /\ ~EndsMidChar(vocab, toks)
        THEN <<[toks |-> toks, emitted |-> Len(text)], Some(Suffix(text, st.emitted))>>
        ELSE <<[toks |-> toks, emitted |-> st.emitted], None>>

\* decode_rest: Option<fragment>, the state is left alone
StreamDecodeRest(vocab, st) ==
    LET text == Decode(vocab, st.toks)
    IN  IF Len(text) > st.emitted THEN Some(Suffix(text, st.emitted)) ELSE None

\* ------------------------------------------------------- configuration
\* Args (clap): the options TextGeneration::new and run receive from main.
TempOpts == {None, Some(0), Some(1)}
TopKOpts == {None, Some(0), Some(1)}      \* --top-k 0 keeps no token
TopPOpts == {None, Some(1), Some(2)}      \* 1 stands for 1.0, 2 for 2.0
Seeds == {1}
Penalties == {1, 2}         \* 1 stands for 1.0 (no penalty), 2 for 2.0
LastNs == {1, 2}
\* The command lines tried. repeat_last_n is read only when repeat_penalty is
\* not 1.0, so one value of it is tried with the penalty off, and the penalty
\* is tried under the default policy; top_k and top_p are read only when the
\* temperature is positive, so they are tried both absent without a
\* temperature and both present with temperature 0; an option out of its
\* range is tried alone.
ArgsSet ==
    { a \in [seed : Seeds, temperature : TempOpts, top_p : TopPOpts,
              top_k : TopKOpts, repeat_penalty : Penalties,
              repeat_last_n : LastNs, sample_len : 0..MaxSampleLen] :
        /\ a.repeat_penalty = 1 => a.repeat_last_n = 1
        /\ a.repeat_penalty # 1 => a.temperature = None
        /\ a.temperature = None => a.top_k = None /\ a.top_p = None
        /\ a.temperature = Some(0) => a.top_k = Some(1) /\ a.top_p = Some(1)
        /\ a.top_k = Some(0) => a.top_p = None
        /\ a.top_p = Some(2) => a.top_k = None }

\* ------------------------------------------------------------- sampler
\* TextGeneration::new, the choice of the Sampling variant
SamplingOfStrict(temp, top_k, top_p) ==
    LET temperature == IF temp = None THEN 0 ELSE temp[1]
    IN  IF temperature < 0 \/ temp = None THEN [kind |-> "ArgMax"]
        ELSE IF top_k = None /\ top_p = None
             THEN [kind |-> "All", temperature |-> temperature]
        ELSE IF top_k # None /\ top_p = None
             THEN [kind |-> "TopK", k |-> top_k[1], temperature |-> temperature]
        ELSE IF top_k = None /\ top_p # None
             THEN [kind |-> "TopP", p |-> top_p[1], temperature |-> temperature]
        ELSE [kind |-> "TopKThenTopP", k |-> top_k[1], p |-> top_p[1],
              temperature |-> temperature]

SamplingOf(temp, top_k, top_p) ==
    LET temperature == IF temp = None THEN 0 ELSE temp[1]
    IN  IF temperature <= 0 THEN [kind |-> "ArgMax"]
        ELSE IF top_k = None /\ top_p = None
             THEN [kind |-> "All", temperature |-> temperature]
        ELSE IF top_k # None /\ top_p = None
             THEN [kind |-> "TopK", k |-> top_k[1], temperature |-> temperature]
        ELSE IF top_k = None /\ top_p # None
             THEN [kind |-> "TopP", p |-> top_p[1], temperature |-> temperature]
        ELSE [kind |-> "TopKThenTopP", k |-> top_k[1], p |-> top_p[1],
              temperature |-> temperature]

\* LogitsProcessor::from_sampling(seed, sampling)
FromSampling(seed, sampling) == [sampling |-> sampling, rng |-> seed % RngPeriod]

\* Logits vectors the model may return, one score per token id: one that
\* ranks "H" first and one that ranks "</s>" first, each with a negative score.
LogitsSet ==
    { <<4, 2, -2>>, <<-2, 4, 2>> }

Min(a, b) == IF a < b THEN a ELSE b

\* token ids by descending score, ties by ascending id
Before(logits, i, j) == logits[i] > logits[j] \/ (logits[i] = logits[j] /\ i < j)
Rank(logits, i) == Cardinality({j \in DOMAIN logits : Before(logits, j, i)}) + 1
Ranked(logits) ==
    [r \in 1..Len(logits) |-> CHOOSE i \in DOMAIN logits : Rank(logits, i) = r]

\* the tokens a policy gives a nonzero probability
Candidates(logits, sampling) ==
    LET n == Len(logits)
        keep == CASE sampling.kind = "ArgMax" -> 1
                  [] sampling.kind = "All" -> n
                  [] sampling.kind = "TopK" -> Min(sampling.k, n)
                  [] sampling.kind = "TopP" -> n
                  [] sampling.kind = "TopKThenTopP" -> Min(sampling.k, n)
    IN  SubSeq(Ranked(logits), 1, keep)

\* sample returns Err when the policy leaves no token to draw from
SampleReturns(lp, logits) == Candidates(logits, lp.sampling) # <<>>

\* LogitsProcessor::sample: <<token, new generator state>>
Sample(lp, logits) ==
    LET cands == Candidates(logits, lp.sampling)
    IN  IF lp.sampling.kind = "ArgMax"
        THEN <<cands[1], lp.rng>>
        ELSE <<cands[(lp.rng % Len(cands)) + 1], (lp.rng + 1) % RngPeriod>>

\* ------------------------------------------------------ repeat penalty
\* candle_transformers::utils::apply_repeat_penalty
apply_repeat_penalty(logits, penalty, context) ==
    LET seen == {context[i] : i \in DOMAIN context}
    IN  [i \in DOMAIN logits |->
            IF i \in seen
            THEN IF logits[i] >= 0 THEN logits[i] \div penalty
                 ELSE logits[i] * penalty
            ELSE logits[i]]

saturating_sub(a, b) == IF a >= b THEN a - b ELSE 0

\* &tokens[from..]
SliceFrom(tokens, from) == SubSeq(tokens, from + 1, Len(tokens))

\* run, `if self.repeat_penalty == 1. { logits } else { ... }`
PenaltyAlways(repeat_penalty, repeat_last_n, logits, tokens) ==
    LET start_at == saturating_sub(Len(tokens), repeat_last_n)
    IN  apply_repeat_penalty(logits, 2, SliceFrom(tokens, start_at))

PenaltyWholeHistory(repeat_penalty, repeat_last_n, logits, tokens) ==
    IF repeat_penalty = 1 THEN logits
    ELSE apply_repeat_penalty(logits, repeat_penalty, tokens)

PenalisedLogits(repeat_penalty, repeat_last_n, logits, tokens) ==
    IF repeat_penalty = 1 THEN logits
    ELSE LET start_at == saturating_sub(Len(tokens), repeat_last_n)
         IN  apply_repeat_penalty(logits, repeat_penalty, SliceFrom(tokens, start_at))

\* ------------------------------------------------- pieces of run's loop
\* `for index in 0..sample_len`
LoopCondOffByOne(index, sample_len) == index <= sample_len
LoopCond(index, sample_len) == index < sample_len

\* `let context_size = if index > 0 { 1 } else { tokens.len() }`
ContextSizeWhole(index, tokens) == Len(tokens)
context_size(index, tokens) == IF index > 0 THEN 1 ELSE Len(tokens)

\* `let start_pos = tokens.len().saturating_sub(context_size)`
start_pos(index, tokens) == saturating_sub(Len(tokens), context_size(index, tokens))

\* `if next_token == eos_token { break; }`
NeverBreaks(next_token, eos_token) == FALSE
IsEos(next_token, eos_token) == next_token = eos_token

\* `tokens.push(next_token)`
PushSliding(tokens, next_token) ==
    IF tokens = <<>> THEN <<next_token>> ELSE Append(Tail(tokens), next_token)
push(tokens, next_token) == Append(tokens, next_token)

\* `generated_tokens += 1`, before the end-of-sequence test: every sampled
\* token counts
CountSkipsEos(generated, next_token, eos) ==
    IF next_token = eos THEN generated ELSE generated + 1
count_generated(generated, next_token, eos) == generated + 1

\* the `?` after a fallible call: an Err leaves run, and main (`run(..)?`)
IgnoreErr(ok, next) == next
Try(ok, next) == IF ok THEN next ELSE "exit"

\* `None => anyhow::bail!("cannot find the </s> token")`
EosAssumed(vocab) == Some(2)
ResolveEos(vocab) == get_token(vocab, "</s>")

\* ---------------------------------------------------------------- state
VARIABLES
    args,              \* Args::parse(), fixed for the process
    vocab,             \* the vocabulary of the tokenizer file
    pc,                \* "loop" | "read" | "decode" | "after_loop" | "report" | "exit"
    sessions,          \* iterations of main's loop completed
    kv_cache,          \* tokens held by the model's incremental cache
    logits_processor,  \* TextGeneration.logits_processor
    tokenizer,         \* TextGeneration.tokenizer (the TokenOutputStream)
    tokens,            \* run: the token history
    prompt_len,        \* length of the encoded prompt
    index,             \* run: the loop variable
    generated_tokens,  \* run: the counter
    eos_token,         \* run: Option, the resolved "</s>" id
    fwd_calls,         \* forward calls made in this session
    fwd_fed,           \* tokens passed to forward before the last call
    last_fwd,          \* Option, the arguments of the last forward call
    model_logits,      \* Option, what the last forward returned
    sampler_logits,    \* Option, what the sampler was last handed
    sampler_seq,       \* the logits of the session's sample calls that returned
    out,               \* fragments printed in this session
    rest_calls,        \* decode_rest calls made in this session
    report,            \* the counts printed by the final println!
    failure            \* the call whose Err ended the session, or "none"

vars == <<args, vocab, pc, sessions, kv_cache, logits_processor, tokenizer,
          tokens, prompt_len, index, generated_tokens, eos_token, fwd_calls,
          fwd_fed, last_fwd, model_logits, sampler_logits, sampler_seq, out,
          rest_calls, report, failure>>

config == <<args, vocab>>
session_obs ==
    <<fwd_calls, fwd_fed, last_fwd, model_logits, sampler_logits, sampler_seq>>

TokenIds == 1..Len(VocabWithEos)

RECURSIVE SeqsUpTo(_, _)
SeqsUpTo(S, n) ==
    IF n = 0 THEN {<<>>}
    ELSE LET shorter == SeqsUpTo(S, n - 1)
         IN  shorter \cup {Append(q, x) : q \in shorter, x \in S}

\* what Tokenizer::encode may return for a line read from stdin
Prompts == SeqsUpTo(TokenIds, MaxPromptLen)

\* a printed fragment, with the decoder's verdict on where it stops
Fragment(text, by, toks) ==
    [text |-> text, by |-> by, mid |-> EndsMidChar(vocab, toks)]

\* the `for &t in tokens.iter()` echo of run: <<decoder state, fragments>>
EchoNothing(st, frags, toks) == <<st, frags>>

RECURSIVE Echo(_, _, _)
Echo(st, frags, toks) ==
    IF toks = <<>> THEN <<st, frags>>
    ELSE LET r == StreamNextToken(vocab, st, Head(toks))
         IN  Echo(r[1],
                  IF r[2] = None THEN frags
                  ELSE Append(frags, Fragment(r[2][1], "next_token", r[1].toks)),
                  Tail(toks))

Init ==
    /\ args \in ArgsSet
    /\ vocab \in Vocabularies
    /\ pc = "loop"
    /\ sessions = 0
    /\ kv_cache = 0
    /\ logits_processor = FromSampling(0, [kind |-> "ArgMax"])
    /\ tokenizer = ClearedDecoder
    /\ tokens = <<>>
    /\ prompt_len = 0
    /\ index = 0
    /\ generated_tokens = 0
    /\ eos_token = None
    /\ fwd_calls = 0
    /\ fwd_fed = 0
    /\ last_fwd = None
    /\ model_logits = None
    /\ sampler_logits = None
    /\ sampler_seq = <<>>
    /\ out = <<>>
    /\ rest_calls = 0
    /\ report = <<>>
    /\ failure = "none"

\* main's loop builds the pipeline anew in every iteration; new makes its
\* logits_processor from the seed and the sampling options
PipelineKept(a) ==
    IF sessions = 0
    THEN FromSampling(a.seed, SamplingOf(a.temperature, a.top_k, a.top_p))
    ELSE logits_processor
PipelineOf(a) ==
    FromSampling(a.seed, SamplingOf(a.temperature, a.top_k, a.top_p))

\* main, `let mut pipeline = TextGeneration::new(&mut model, &tokenizer, ...)`
NewPipeline ==
    /\ pc = "loop"
    /\ sessions < MaxSessions
    /\ logits_processor' = PipelineOf(args)
    /\ tokenizer' = ClearedDecoder
    /\ tokens' = <<>>
    /\ prompt_len' = 0
    /\ index' = 0
    /\ generated_tokens' = 0
    /\ eos_token' = None
    /\ fwd_calls' = 0
    /\ fwd_fed' = 0
    /\ last_fwd' = None
    /\ model_logits' = None
    /\ sampler_logits' = None
    /\ sampler_seq' = <<>>
    /\ out' = <<>>
    /\ rest_calls' = 0
    /\ report' = <<>>
    /\ pc' = "read"
    /\ UNCHANGED <<config, sessions, kv_cache, failure>>

\* main reads a line and calls run; run up to `let start_gen`: clear, encode,
\* echo of the prompt, lookup of "</s>"
PrefillEncodeFails ==
    /\ pc = "read"
    /\ tokenizer' = ClearedDecoder
    /\ failure' = "encode"
    /\ pc' = Try(FALSE, "decode")
    /\ UNCHANGED <<config, sessions, kv_cache, logits_processor, tokens,
                   prompt_len, index, generated_tokens, eos_token, session_obs,
                   out, rest_calls, report>>

PrefillEchoFails ==
    /\ pc = "read"
    /\ \E prompt \in Prompts, j \in 1..MaxPromptLen :
        /\ j <= Len(prompt)
        /\ LET e == Echo(ClearedDecoder, <<>>, SubSeq(prompt, 1, j - 1))
           IN  /\ tokenizer' = e[1]
               /\ out' = e[2]
        /\ tokens' = prompt
        /\ prompt_len' = Len(prompt)
    /\ failure' = "echo"
    /\ pc' = Try(FALSE, "decode")
    /\ UNCHANGED <<config, sessions, kv_cache, logits_processor, index,
                   generated_tokens, eos_token, session_obs, rest_calls, report>>

Prefill ==
    /\ pc = "read"
    /\ \E prompt \in Prompts :
        /\ LET e == Echo(ClearedDecoder, <<>>, prompt)
           IN  /\ tokenizer' = e[1]
               /\ out' = e[2]
        /\ tokens' = prompt
        /\ prompt_len' = Len(prompt)
    /\ generated_tokens' = 0
    /\ index' = 0
    /\ eos_token' = ResolveEos(vocab)
    /\ failure' = IF eos_token' = None THEN "eos" ELSE failure
    /\ pc' = Try(eos_token' # None, "decode")
    /\ UNCHANGED <<config, sessions, kv_cache, logits_processor, session_obs,
                   rest_calls, report>>

\* `if let Some(t) = ... { print!("{t}") }`: the fragments printed so far
DropFragment(frags, opt, by, toks) == frags
Emit(frags, opt, by, toks) ==
    IF opt = None THEN frags ELSE Append(frags, Fragment(opt[1], by, toks))

\* the forward call of one loop iteration, as the model sees it
ForwardCall ==
    LET sp == start_pos(index, tokens)
    IN  [ctx |-> SliceFrom(tokens, sp), pos |-> sp, cache |-> kv_cache]

CallForward ==
    /\ fwd_calls' = fwd_calls + 1
    /\ fwd_fed' = IF last_fwd = None THEN 0 ELSE fwd_fed + Len(last_fwd[1].ctx)
    /\ last_fwd' = Some(ForwardCall)

\* forward returns the logits of the last position of its context, so it can
\* return Ok only for a context that has one
ForwardReturns == ForwardCall.ctx # <<>>

\* `break` comes before the decoder's next_token: the decoder is not given
\* the end-of-sequence token
FedBeforeBreak(st, next_token) == StreamNextToken(vocab, st, next_token)[1]
DecoderAtBreak(st, next_token) == st

\* one iteration of `for index in 0..sample_len` whose forward returns Err;
\* the cache may or may not have taken the context in
DecodeForwardFails ==
    /\ pc = "decode"
    /\ LoopCond(index, args.sample_len)
    /\ CallForward
    /\ kv_cache' \in {kv_cache, kv_cache + Len(ForwardCall.ctx)}
    /\ failure' = "forward"
    /\ pc' = Try(FALSE, "decode")
    /\ UNCHANGED <<config, sessions, logits_processor, tokenizer, tokens,
                   prompt_len, index, generated_tokens, eos_token, model_logits,
                   sampler_logits, sampler_seq, out, rest_calls, report>>

\* ... whose sample returns Err
DecodeSampleFails ==
    /\ pc = "decode"
    /\ LoopCond(index, args.sample_len)
    /\ CallForward
    /\ ForwardReturns
    /\ kv_cache' = kv_cache + Len(ForwardCall.ctx)
    /\ \E logits \in LogitsSet :
        /\ model_logits' = Some(logits)
        /\ sampler_logits' =
             Some(PenalisedLogits(args.repeat_penalty, args.repeat_last_n,
                                  logits, tokens))
    /\ failure' = "sample"
    /\ pc' = Try(FALSE, "decode")
    /\ UNCHANGED <<config, sessions, logits_processor, tokenizer, tokens,
                   prompt_len, index, generated_tokens, eos_token, sampler_seq,
                   out, rest_calls, report>>

\* ... whose calls up to the push all return Ok; dec_ok tells whether the
\* decoder's next_token does
DecodeStep ==
    /\ pc = "decode"
    /\ LoopCond(index, args.sample_len)
    /\ CallForward
    /\ ForwardReturns
    /\ kv_cache' = kv_cache + Len(ForwardCall.ctx)
    /\ \E logits \in LogitsSet, dec_ok \in BOOLEAN :
        LET penalised == PenalisedLogits(args.repeat_penalty, args.repeat_last_n,
                                         logits, tokens)
            s == Sample(logits_processor, penalised)
            next_token == s[1]
            r == StreamNextToken(vocab, tokenizer, next_token)
        IN  /\ SampleReturns(logits_processor, penalised)
            /\ model_logits' = Some(logits)
            /\ sampler_logits' = Some(penalised)
            /\ sampler_seq' = Append(sampler_seq, penalised)
            /\ logits_processor' = [logits_processor EXCEPT !.rng = s[2]]
            /\ tokens' = push(tokens, next_token)
            /\ generated_tokens' =
                 count_generated(generated_tokens, next_token, eos_token[1])
            /\ IF IsEos(next_token, eos_token[1])
               THEN /\ dec_ok
                    /\ pc' = "after_loop"
                    /\ tokenizer' = DecoderAtBreak(tokenizer, next_token)
                    /\ UNCHANGED <<out, index, failure>>
               ELSE IF dec_ok
               THEN /\ tokenizer' = r[1]
                    /\ out' = Emit(out, r[2], "next_token", r[1].toks)
                    /\ index' = index + 1
                    /\ pc' = "decode"
                    /\ UNCHANGED failure
               ELSE /\ failure' = "next_token"
                    /\ pc' = Try(FALSE, "decode")
                    /\ UNCHANGED <<tokenizer, out, index>>
    /\ UNCHANGED <<config, sessions, prompt_len, eos_token, rest_calls, report>>

\* the loop is left by `break` or because 0..sample_len is used up
LoopLeft ==
    \/ pc = "after_loop"
    \/ pc = "decode" /\ ~LoopCond(index, args.sample_len)

\* `self.tokenizer.decode_rest().map_err(E::msg)?` returns Err
DecodeRestFails ==
    /\ LoopLeft
    /\ rest_calls' = rest_calls + 1
    /\ failure' = "decode_rest"
    /\ pc' = Try(FALSE, "report")
    /\ UNCHANGED <<config, sessions, kv_cache, logits_processor, tokenizer,
                   tokens, prompt_len, index, generated_tokens, eos_token,
                   session_obs, out, report>>

\* decode_rest and the print of what it returns
DecodeRest ==
    /\ LoopLeft
    /\ rest_calls' = rest_calls + 1
    /\ out' = Emit(out, StreamDecodeRest(vocab, tokenizer), "decode_rest",
                   tokenizer.toks)
    /\ pc' = Try(TRUE, "report")
    /\ UNCHANGED <<config, sessions, kv_cache, logits_processor, tokenizer,
                   tokens, prompt_len, index, generated_tokens, eos_token,
                   session_obs, report, failure>>

\* `println!("\n{generated_tokens} tokens generated ...")`, Ok(()), and main's
\* loop starts over
Report ==
    /\ pc = "report"
    /\ report' = Append(report, generated_tokens)
    /\ sessions' = sessions + 1
    /\ pc' = "loop"
    /\ UNCHANGED <<config, kv_cache, logits_processor, tokenizer, tokens,
                   prompt_len, index, generated_tokens, eos_token, session_obs,
                   out, rest_calls, failure>>

Next ==
    \/ NewPipeline
    \/ PrefillEncodeFails
    \/ PrefillEchoFails
    \/ Prefill
    \/ DecodeForwardFails
    \/ DecodeSampleFails
    \/ DecodeStep
    \/ DecodeRestFails
    \/ DecodeRest
    \/ Report

Spec == Init /\ [][Next]_vars

\* run is sequential code: a session that can take a step takes it
FairSpec == Spec /\ WF_vars(Next)

TypeOK ==
    /\ pc \in {"loop", "read", "decode", "after_loop", "report", "exit"}
    /\ sessions \in 0..MaxSessions
    /\ Len(tokens) <= MaxPromptLen + MaxSampleLen

\* ------------------------------------------------------------ properties
\* the last token of the history is a sampled end-of-sequence token
EosSampled ==
    /\ eos_token # None
    /\ Len(tokens) > prompt_len
    /\ tokens[Len(tokens)] = eos_token[1]

\* the tokens run passes to the decoder's next_token: the prompt and every
\* sampled token but a final end-of-sequence
FedTokens == IF EosSampled THEN SubSeq(tokens, 1, Len(tokens) - 1) ELSE tokens

RECURSIVE Concat(_)
Concat(frags) ==
    IF frags = <<>> THEN <<>> ELSE Head(frags).text \o Concat(Tail(frags))

\* C1: in a session, the first forward call receives the whole prompt at
\* offset 0; every later call receives exactly the one token appended last,
\* at offset len(history) - 1 = prompt_len + i - 1, which is the number of
\* tokens passed to forward by the earlier calls of the session.
C1_ForwardWindow ==
    last_fwd # None =>
        LET call == last_fwd[1]
            i == fwd_calls - 1
        IN  IF i = 0
            THEN /\ call.ctx = SubSeq(tokens, 1, prompt_len)
                 /\ call.pos = 0
                 /\ fwd_fed = 0
            ELSE /\ call.ctx = <<tokens[prompt_len + i]>>
                 /\ call.pos = prompt_len + i - 1
                 /\ call.pos = fwd_fed

C1_Witness ==
    /\ fwd_calls > 1
    /\ prompt_len > 1
    /\ failure = "none"

\* C2: at every forward call the position offset equals the number of
\* tokens the model cache holds (a new session starts on an empty cache).
C2_OffsetMatchesCache ==
    last_fwd # None => last_fwd[1].pos = last_fwd[1].cache

\* C3: a session makes at most sample_len forward calls, and a session in
\* its decode loop leaves it: it reaches the report or fails.
C3_BoundedDecode ==
    /\ [](fwd_calls <= args.sample_len)
    /\ [](index <= args.sample_len)
    /\ (pc = "decode") ~> (report # <<>> \/ failure # "none")

C3_Witness ==
    /\ report # <<>>
    /\ ~EosSampled
    /\ args.sample_len > 1
    /\ fwd_calls = args.sample_len

\* C4: once the end-of-sequence token is sampled the session makes no
\* further forward call; decode_rest runs once, after the last decode step,
\* and the report is printed once, after decode_rest.
SessionOrder ==
    /\ rest_calls <= 1
    /\ Len(report) <= rest_calls
    /\ rest_calls = 1 => pc \in {"report", "loop", "exit"}
    /\ pc = "after_loop" => EosSampled
    /\ pc = "report" => rest_calls = 1 /\ report = <<>>
    /\ (pc = "loop" /\ sessions > 0) => rest_calls = 1 /\ Len(report) = 1

NoForwardAfterEnd ==
    (EosSampled \/ rest_calls > 0) /\ pc # "loop" => fwd_calls' = fwd_calls

C4_StopFlushReport == [](SessionOrder) /\ [][NoForwardAfterEnd]_vars

C4_Witness ==
    /\ pc = "loop"
    /\ EosSampled
    /\ fwd_calls < args.sample_len
    /\ Len(report) = 1

\* C5: when the first token sampled under the Deterministic policy is the
\* end-of-sequence token, the output is the echoed prompt alone and the
\* report shows 0 generated tokens.
C5_EosFirstReportsZero ==
    ( /\ logits_processor.sampling.kind = "ArgMax"
      /\ EosSampled
      /\ Len(tokens) = prompt_len + 1
      /\ report # <<>> )
    => /\ Concat(out) = Decode(vocab, SubSeq(tokens, 1, prompt_len))
       /\ report = <<0>>

\* C6: the fragments printed in a session, the decode_rest fragment
\* included, concatenate to the one-shot decoding of the tokens fed to the
\* decoder, and no fragment stops in the middle of a character.
StreamEqualsOneShot ==
    (rest_calls = 1 /\ failure = "none") => Concat(out) = Decode(vocab, FedTokens)

C7_PenaltyOneIsNoOp ==
    (args.repeat_penalty = 1 /\ sampler_logits # None)
    => sampler_logits = model_logits

C7_Witness ==
    /\ args.repeat_penalty = 1
    /\ sampler_logits # None
    /\ fwd_calls > 1
    /\ sampler_logits[1][tokens[prompt_len + 1]] # 0

\* C8: without a "</s>" token in the vocabulary the session fails before any
\* decode step: no forward call, no sampled token, no decode_rest, no report.
C8_NoEosNoDecode ==
    get_token(vocab, "</s>") = None =>
        /\ fwd_calls = 0
        /\ generated_tokens = 0
        /\ Len(tokens) = prompt_len
        /\ rest_calls = 0
        /\ report = <<>>
        /\ pc \in {"loop", "read", "exit"}
        /\ sessions = 0

C8_Witness ==
    /\ failure = "eos"
    /\ pc = "exit"
    /\ out # <<>>

\* C9: a failed forward, tokenizer or decoder call ends the session at once:
\* no retry, no further forward call, no token appended for the failed
\* step, and neither a (further) decode_rest nor the report.
Aborted ==
    /\ pc = "exit"
    /\ report = <<>>
    /\ rest_calls = (IF failure = "decode_rest" THEN 1 ELSE 0)
    /\ fwd_calls <= index + 1

C9_NoAppendOnFailure ==
    failure # "none" =>
        /\ Aborted
        /\ Len(tokens) = prompt_len + index

\* C9 as amended: ... no token is appended for a step whose forward or sample
\* call fails; when the decoder's next_token fails in a decode step, the
\* sampled token is already appended and counted.
C9_AbortOnFailure ==
    failure # "none" =>
        /\ Aborted
        /\ failure \in {"forward", "sample"} =>
              Len(tokens) = prompt_len + fwd_calls - 1
        /\ failure = "next_token" =>
              /\ Len(tokens) = prompt_len + fwd_calls
              /\ generated_tokens = fwd_calls

C9_Witness ==
    /\ failure = "forward"
    /\ fwd_calls > 1

\* C10: a collaborator failure ends the session only: the interactive loop
\* goes on to a further prompt, on a cache without the failed session's
\* state.
C10_LoopSurvivesFailure ==
    failure \in {"encode", "echo", "forward", "sample", "next_token", "decode_rest"}
    => pc = "loop" /\ kv_cache = 0

\* a policy outside the data model's invariant: k >= 1, 0 < p <= 1, t > 0
InvalidPolicy(sampling) ==
    \/ sampling.kind \in {"TopK", "TopKThenTopP"} /\ sampling.k < 1
    \/ sampling.kind \in {"TopP", "TopKThenTopP"} /\ ~(0 < sampling.p /\ sampling.p <= 1)
    \/ sampling.kind # "ArgMax" /\ sampling.temperature <= 0

\* C11: a session whose sampling policy is invalid does no generation work:
\* it is rejected at session start, before the prompt is tokenized or echoed
\* and before any forward call.
C11_InvalidPolicyRejected ==
    InvalidPolicy(logits_processor.sampling) =>
        /\ pc \in {"read", "exit"}
        /\ tokens = <<>>
        /\ out = <<>>
        /\ fwd_calls = 0

\* main has built a pipeline: logits_processor is the one TextGeneration::new
\* made
PipelineBuilt == pc # "loop" \/ sessions > 0

\* C12: the policy is Deterministic exactly when the temperature is absent
\* or <= 0, whatever top-k and top-p are; with t > 0 it is Temperature(t),
\* TopK(k, t), TopP(p, t) or TopKThenTopP(k, p, t) according to which of
\* top-k and top-p are given; and it does not change during a session.
PolicyMatchesConfig ==
    PipelineBuilt =>
        LET t == args.temperature
            k == args.top_k
            p == args.top_p
            s == logits_processor.sampling
        IN  /\ s.kind = "ArgMax" <=> (t = None \/ t[1] <= 0)
            /\ s.kind # "ArgMax" =>
                  /\ s.temperature = t[1]
                  /\ s.temperature > 0
                  /\ s.kind = "All" <=> (k = None /\ p = None)
                  /\ s.kind = "TopK" <=> (k # None /\ p = None)
                  /\ s.kind = "TopP" <=> (k = None /\ p # None)
                  /\ s.kind = "TopKThenTopP" <=> (k # None /\ p # None)
                  /\ s.kind \in {"TopK", "TopKThenTopP"} => s.k = k[1]
                  /\ s.kind \in {"TopP", "TopKThenTopP"} => s.p = p[1]

PolicyFixed ==
    PipelineBuilt => logits_processor'.sampling = logits_processor.sampling

C12_PolicyFromConfig == [](PolicyMatchesConfig) /\ [][PolicyFixed]_vars

C12_Witness ==
    /\ args.temperature = Some(0)
    /\ args.top_k # None
    /\ args.top_p # None
    /\ logits_processor.sampling.kind = "ArgMax"
    /\ fwd_calls > 1

\* the tokens sampled in the session so far
Generated == SubSeq(tokens, prompt_len + 1, Len(tokens))

\* the tokens a sampler draws for a sequence of logits, from a given state
RECURSIVE Replay(_, _)
Replay(lp, seq) ==
    IF seq = <<>> THEN <<>>
    ELSE LET s == Sample(lp, Head(seq))
         IN  <<s[1]>> \o Replay([lp EXCEPT !.rng = s[2]], Tail(seq))

\* a generator seeded with the configured seed that has drawn nothing yet
FreshProcessor == [sampling |-> logits_processor.sampling,
                   rng |-> args.seed % RngPeriod]

\* C13: every session starts on a generator freshly made from the seed,
\* whatever earlier sessions drew; so the tokens a session samples are those
\* a fresh generator draws for the logits the session's sampler received:
\* sessions with the same seed, policy and logits sample the same tokens.
C13_FreshSeedPerSession ==
    PipelineBuilt =>
        /\ pc = "read" => logits_processor = FreshProcessor
        /\ Generated = Replay(FreshProcessor, sampler_seq)

C13_Witness ==
    /\ sessions > 0
    /\ logits_processor.sampling.kind = "All"
    /\ Len(Generated) > 1
    /\ Generated # Replay(logits_processor, sampler_seq)

\* the history as the last decode step whose forward returned found it,
\* before its push
ForwardsReturned == IF failure = "forward" THEN fwd_calls - 1 ELSE fwd_calls
HistoryAtStep == SubSeq(tokens, 1, prompt_len + ForwardsReturned - 1)

\* the last n elements of a sequence
LastOf(seq, n) == SubSeq(seq, Len(seq) - n + 1, Len(seq))

\* C14: with a repeat penalty other than 1.0, the penalty is applied over the
\* last min(repeat_last_n, len(history)) tokens of the history as it stands
\* before the push, prompt tokens included: the logits of the token ids in
\* that tail are divided by the penalty if positive and multiplied by it if
\* negative, and all other logits are the model's.
C14_PenaltyOverTail ==
    (args.repeat_penalty # 1 /\ sampler_logits # None) =>
        LET model == model_logits[1]
            handed == sampler_logits[1]
            tail == LastOf(HistoryAtStep,
                           Min(args.repeat_last_n, Len(HistoryAtStep)))
            ids == {tail[i] : i \in DOMAIN tail}
        IN  \A id \in DOMAIN model :
                handed[id] =
                    IF id \in ids /\ model[id] > 0
                    THEN model[id] \div args.repeat_penalty
                    ELSE IF id \in ids /\ model[id] < 0
                    THEN model[id] * args.repeat_penalty
                    ELSE model[id]

C14_Witness ==
    /\ args.repeat_penalty # 1
    /\ sampler_logits # None
    /\ args.repeat_last_n < Len(HistoryAtStep)
    /\ HistoryAtStep[1] # HistoryAtStep[Len(HistoryAtStep)]
    /\ \E id \in DOMAIN model_logits[1] :
          /\ sampler_logits[1][id] < 0
          /\ sampler_logits[1][id] # model_logits[1][id]

IsPrefix(a, b) == Len(a) <= Len(b) /\ a = SubSeq(b, 1, Len(a))

\* C15: a session's decoder is cleared before any token is fed to it and
\* is then fed the prompt tokens, once each and in order, before the first
\* forward call; what it holds and what is printed come from this session's
\* tokens alone.
C15_DecoderPerSession ==
    /\ pc = "read" => tokenizer = ClearedDecoder /\ out = <<>>
    /\ IsPrefix(tokenizer.toks, tokens)
    /\ fwd_calls > 0 => Len(tokenizer.toks) >= prompt_len
    /\ IsPrefix(Concat(out), Decode(vocab, tokenizer.toks))

C15_Witness ==
    /\ sessions > 0
    /\ pc = "decode"
    /\ prompt_len > 1
    /\ fwd_calls > 0
    /\ out # <<>>

\* C16: the history of a session is append-only: it is the encoded prompt
\* after prefill, a decode step appends the token it sampled and nothing
\* else, and no step removes or rewrites an element; after j steps it is the
\* prompt followed by the j sampled tokens in sampling order.
HistoryShape ==
    /\ Len(tokens) >= prompt_len
    /\ (pc = "decode" /\ fwd_calls = 0) => Len(tokens) = prompt_len
    /\ Len(Generated) = Len(sampler_seq)

AppendOnly ==
    pc \notin {"loop", "read"} =>
        /\ prompt_len' = prompt_len
        /\ \/ tokens' = tokens
           \/ /\ fwd_calls' = fwd_calls + 1
              /\ tokens' = Append(tokens,
                                  Sample(logits_processor, sampler_logits'[1])[1])

C16_HistoryAppendOnly == [](HistoryShape) /\ [][AppendOnly]_vars

C16_Witness ==
    /\ prompt_len > 0
    /\ fwd_calls > 1
    /\ Len(tokens) = prompt_len + fwd_calls
    /\ failure = "none"

\* C17: a sampled end-of-sequence token is appended to the history and not
\* given to the decoder's next_token, so it adds nothing to the text; every
\* other sampled token is given to next_token once, right after its push and
\* before the next forward call.
Running == pc \in {"decode", "after_loop", "report"} \/ (pc = "loop" /\ sessions > 0)

DecoderFollowsHistory ==
    /\ Running => tokenizer.toks = FedTokens
    /\ pc = "decode" => tokenizer.toks = tokens
    /\ pc = "after_loop" => tokens = Append(tokenizer.toks, eos_token[1])

FeedOnPush ==
    (pc = "decode" /\ Len(tokens') = Len(tokens) + 1) =>
        LET t == tokens'[Len(tokens')]
        IN  IF t = eos_token[1]
            THEN tokenizer' = tokenizer /\ out' = out
            ELSE failure' = "none" =>
                    /\ tokenizer'.toks = Append(tokenizer.toks, t)
                    /\ fwd_calls' = fwd_calls + 1

C17_EosNotDecoded == [](DecoderFollowsHistory) /\ [][FeedOnPush]_vars

C17_Witness ==
    /\ pc = "after_loop"
    /\ fwd_calls > 1
    /\ tokenizer.toks # <<>>
    /\ EndsMidChar(vocab, tokenizer.toks)

\* C18: the generated-token counter is the number of forward calls of the
\* session that returned and were sampled, it is len(history) - prompt_len,
\* and it never exceeds sample_len; the report prints it; with sample_len = 0
\* there is no forward call and the report shows 0.
C18_CounterMatchesHistory ==
    /\ generated_tokens = Len(sampler_seq)
    /\ generated_tokens = Len(tokens) - prompt_len
    /\ generated_tokens <= args.sample_len
    /\ generated_tokens <= fwd_calls
    /\ report # <<>> => report = <<generated_tokens>>
    /\ args.sample_len = 0 => fwd_calls = 0 /\ (report # <<>> => report = <<0>>)

C18_Witness ==
    /\ report # <<>>
    /\ EosSampled
    /\ generated_tokens > 1
    /\ generated_tokens = args.sample_len

====
